---- MODULE Spec2Model ----
(***************************************************************************)
(* Haiven MCP server: the prompt service (catalog + content cache), the    *)
(* startup sequence of HaivenMCPServer.run and the four RPC handlers.      *)
(*                                                                         *)
(* Coroutines are modelled at their await points: a coroutine runs         *)
(* atomically from one `await self.client.get(...)` to the next, and other *)
(* coroutines may run while it is suspended there.  The backend is the     *)
(* environment: every answer to a GET is drawn from a bounded set.         *)
(***************************************************************************)
EXTENDS Integers, Sequences, FiniteSets, TLC

VARIABLES
    pc,                    \* position of HaivenMCPServer.run
    reg,                   \* position of PromptService.register_prompts
    backend_restricted,    \* identifiers the backend flags download_restricted
    prompts_loaded,        \* PromptService.prompts_loaded
    loaded_prompts,        \* PromptService.loaded_prompts : identifier -> metadata
    prompt_content_cache,  \* PromptService.prompt_content_cache : identifier -> content
    inflight,              \* get_prompt_content calls suspended at their GET, per id
    calls,                 \* GETs issued by get_prompt_content, per id
    reply,                 \* the last value returned to a caller / RPC client
    register_log,          \* what the last register_prompts has logged
    catalog_flagged,       \* identifiers flagged download_restricted in the
                           \* answer load_prompts_from_api last received
    tools,                 \* ToolRegistry.tools: the instances in the order in
                           \* which the dict holds their names
    registered             \* the tool classes passed to register_tool so far

vars == <<pc, reg, backend_restricted, prompts_loaded, loaded_prompts,
          prompt_content_cache, inflight, calls, reply, register_log,
          catalog_flagged, tools, registered>>

---------------------------------------------------------------------------
(* Bounds of the model *)

MaxCatalog == 2
MaxInFlight == 2
MaxCalls == 2
MaxRegistrations == 4
MaxLines == 4

---------------------------------------------------------------------------
(* Values *)

Ids == {"p1", "p2"}
NoId == ""
Titles == {"T1", "T2"}
Contents == {"c1"}

EmptyMap == [x \in {} |-> x]

NoReply == [op |-> "none"]

---------------------------------------------------------------------------
(* JSON objects are functions from the keys they hold to values *)

\* dict.get(key, default)
Get(obj, key, default) == IF key \in DOMAIN obj THEN obj[key] ELSE default

\* dict[key] = value
Put(map, key, value) ==
    [k \in DOMAIN map \cup {key} |-> IF k = key THEN value ELSE map[k]]

RECURSIVE SeqsUpTo(_, _)
SeqsUpTo(S, n) ==
    IF n = 0 THEN {<<>>}
    ELSE LET shorter == SeqsUpTo(S, n - 1)
         IN  shorter \cup { Append(s, x) : s \in { t \in shorter : Len(t) = n - 1 }, x \in S }

---------------------------------------------------------------------------
(* The backend: answers to GET /api/prompts *)

\* One record of a catalog answer: a record may lack the title, the flag or
\* the identifier key, or carry an empty identifier. The description and the
\* categories are the same in all of them.
CatalogRecords ==
    { [identifier |-> i, title |-> t, help_prompt_description |-> "D",
       categories |-> <<"a">>, download_restricted |-> FALSE] :
        i \in Ids, t \in Titles }
    \cup { [identifier |-> i, title |-> "T1", help_prompt_description |-> "D",
            categories |-> <<"a">>, download_restricted |-> TRUE] : i \in Ids }
    \cup { [identifier |-> NoId, title |-> "T1", help_prompt_description |-> "D",
            categories |-> <<"a">>, download_restricted |-> FALSE] }
    \cup { [identifier |-> i, help_prompt_description |-> "D", categories |-> <<"a">>,
            download_restricted |-> f] : i \in Ids, f \in BOOLEAN }
    \cup { [identifier |-> i, title |-> "T1", help_prompt_description |-> "D",
            categories |-> <<"a">>] : i \in Ids }
    \cup { [title |-> "T1", help_prompt_description |-> "D", categories |-> <<"a">>,
            download_restricted |-> FALSE] }

\* identifier is the primary key of a catalog record: no two records of one
\* answer carry the same non-empty identifier
UniqueIds(body) ==
    \A i, j \in 1..Len(body) :
        (i # j /\ "identifier" \in DOMAIN body[i] /\ "identifier" \in DOMAIN body[j]
           /\ body[i].identifier = body[j].identifier)
        => body[i].identifier = NoId

CatalogBodies == { s \in SeqsUpTo(CatalogRecords, MaxCatalog) : UniqueIds(s) }

\* the backend flags exactly the records of the identifiers in `restricted`
FlaggedAs(record, restricted) ==
    ("identifier" \in DOMAIN record /\ record.identifier \in Ids)
    => (Get(record, "download_restricted", FALSE) = (record.identifier \in restricted))

\* the identifiers of the records of an answer that are flagged
FlaggedIn(resp) ==
    { resp.body[i].identifier : i \in { j \in 1..Len(resp.body) :
        /\ "identifier" \in DOMAIN resp.body[j]
        /\ Get(resp.body[j], "download_restricted", FALSE) } }

CatalogResponsesFor ==
    [restricted \in SUBSET Ids |->
        { [status |-> "ok", body |-> b] :
            b \in { s \in CatalogBodies : \A i \in 1..Len(s) : FlaggedAs(s[i], restricted) } }
        \cup { [status |-> st, body |-> <<>>] : st \in {"http_error", "transport_fault"} }]

CatalogResponses(restricted) == CatalogResponsesFor[restricted]

(* The backend: answers to GET /api/download-prompt?prompt_id=... *)

ContentObjects ==
    { [content |-> c] : c \in Contents }
    \cup { [identifier |-> i, content |-> c] : i \in Ids, c \in Contents }
    \cup { [identifier |-> i] : i \in Ids }

\* kind: the shape of the JSON body; obj: the body when it is an object;
\* items: the body when it is a list
ContentResponses ==
    { [status |-> "ok", kind |-> "object", obj |-> o, items |-> <<>>] :
        o \in ContentObjects }
    \cup { [status |-> "ok", kind |-> "list", obj |-> EmptyMap, items |-> <<o>>] :
        o \in ContentObjects \cup {EmptyMap} }
    \cup { [status |-> "ok", kind |-> k, obj |-> EmptyMap, items |-> <<>>] :
        k \in {"empty_object", "empty_list", "null"} }
    \cup { [status |-> st, kind |-> "null", obj |-> EmptyMap, items |-> <<>>] :
        st \in {"http_error", "transport_fault"} }

NoContentResponses == { r \in ContentResponses : r.kind \notin {"object", "list"} }

\* The backend does not serve the content of a record it flags
\* download_restricted: it answers not-found or with an error.
ContentAnswers(prompt_id, restricted) ==
    IF prompt_id \in restricted THEN NoContentResponses ELSE ContentResponses

---------------------------------------------------------------------------
(* PromptService *)

\* a load_prompts_from_api that answers a failed GET with an empty list
load_prompts_from_api_swallow(resp) ==
    IF resp.status # "ok"
    THEN [raised |-> FALSE, value |-> <<>>, log |-> "Error loading prompts from API"]
    ELSE [raised |-> FALSE,
          value |-> SelectSeq(resp.body,
                        LAMBDA prompt : ~Get(prompt, "download_restricted", FALSE)),
          log |-> "Successfully loaded prompts from API"]

None == [none |-> TRUE]

\* load_prompts_from_api without its download_restricted filter
load_prompts_from_api_unfiltered(resp) ==
    IF resp.status = "http_error"
    THEN [raised |-> TRUE, value |-> <<>>, log |-> "HTTP error loading prompts"]
    ELSE IF resp.status # "ok"
    THEN [raised |-> TRUE, value |-> <<>>, log |-> "Error loading prompts from API"]
    ELSE [raised |-> FALSE, value |-> resp.body,
          log |-> "Successfully loaded prompts from API"]

\* load_prompts_from_api, from the answer to its GET on: raise_for_status,
\* the download_restricted filter, and the re-raise of both except clauses
load_prompts_from_api(resp) ==
    IF resp.status = "http_error"
    THEN [raised |-> TRUE, value |-> <<>>, log |-> "HTTP error loading prompts"]
    ELSE IF resp.status # "ok"
    THEN [raised |-> TRUE, value |-> <<>>, log |-> "Error loading prompts from API"]
    ELSE [raised |-> FALSE,
          value |-> SelectSeq(resp.body,
                        LAMBDA prompt : ~Get(prompt, "download_restricted", FALSE)),
          log |-> "Successfully loaded prompts from API"]

\* The keys of a catalog record that the metadata keeps. help_user_input,
\* help_sample_input and type are read and stored in the same way and are
\* left out of the model.
MetadataKeys == {"title", "categories", "help_prompt_description"}

\* the PromptMetadata built from a record that has the keys
PromptMetadata(prompt) == [k \in MetadataKeys |-> prompt[k]]

\* a loop that stores the records with an empty identifier too
RECURSIVE store_prompts_keep_empty(_, _)
store_prompts_keep_empty(prompts_data, loaded) ==
    IF prompts_data = <<>>
    THEN [loaded |-> loaded, raised |-> FALSE]
    ELSE LET prompt == Head(prompts_data)
         IN  IF "identifier" \notin DOMAIN prompt \/ ~(MetadataKeys \subseteq DOMAIN prompt)
             THEN [loaded |-> loaded, raised |-> TRUE]
             ELSE store_prompts_keep_empty(Tail(prompts_data),
                      Put(loaded, prompt.identifier, PromptMetadata(prompt)))

\* a loop that skips the records flagged download_restricted
RECURSIVE store_prompts_unrestricted(_, _)
store_prompts_unrestricted(prompts_data, loaded) ==
    IF prompts_data = <<>>
    THEN [loaded |-> loaded, raised |-> FALSE]
    ELSE LET prompt == Head(prompts_data)
         IN  IF "identifier" \notin DOMAIN prompt
             THEN [loaded |-> loaded, raised |-> TRUE]
             ELSE IF prompt.identifier = NoId \/ Get(prompt, "download_restricted", FALSE)
             THEN store_prompts_unrestricted(Tail(prompts_data), loaded)
             ELSE IF ~(MetadataKeys \subseteq DOMAIN prompt)
             THEN [loaded |-> loaded, raised |-> TRUE]
             ELSE store_prompts_unrestricted(Tail(prompts_data),
                      Put(loaded, prompt.identifier, PromptMetadata(prompt)))

\* the for loop of register_prompts: stores metadata record by record and
\* stops at the first KeyError
RECURSIVE store_prompts(_, _)
store_prompts(prompts_data, loaded) ==
    IF prompts_data = <<>>
    THEN [loaded |-> loaded, raised |-> FALSE]
    ELSE LET prompt == Head(prompts_data)
         IN  IF "identifier" \notin DOMAIN prompt
             THEN [loaded |-> loaded, raised |-> TRUE]
             ELSE IF prompt.identifier = NoId
             THEN store_prompts(Tail(prompts_data), loaded)
             ELSE IF ~(MetadataKeys \subseteq DOMAIN prompt)
             THEN [loaded |-> loaded, raised |-> TRUE]
             ELSE store_prompts(Tail(prompts_data),
                      Put(loaded, prompt.identifier, PromptMetadata(prompt)))

\* an except clause that logs and raises again
register_prompts_except_reraise(loaded, cause) ==
    [loaded_prompts |-> loaded, prompts_loaded |-> prompts_loaded, raised |-> TRUE,
     log |-> <<cause, "Failed to register prompts">>]

\* an except clause that does not mark the service loaded
register_prompts_except_unloaded(loaded, cause) ==
    [loaded_prompts |-> loaded, prompts_loaded |-> prompts_loaded, raised |-> FALSE,
     log |-> <<cause, "Failed to register prompts">>]

\* an except clause that empties the catalog
register_prompts_except_cleared(loaded, cause) ==
    [loaded_prompts |-> EmptyMap, prompts_loaded |-> TRUE, raised |-> FALSE,
     log |-> <<cause, "Failed to register prompts">>]

\* the except clause of register_prompts; cause is what was logged where
\* the fault arose
register_prompts_except(loaded, cause) ==
    [loaded_prompts |-> loaded, prompts_loaded |-> TRUE, raised |-> FALSE,
     log |-> <<cause, "Failed to register prompts">>]

\* a register_prompts that builds the catalog anew from what it loaded
register_prompts_from_anew(api) ==
    LET st == IF api.raised
              THEN [loaded |-> EmptyMap, raised |-> TRUE]
              ELSE store_prompts(api.value, EmptyMap)
    IN  IF st.raised
        THEN register_prompts_except(st.loaded, api.log)
        ELSE [loaded_prompts |-> st.loaded, prompts_loaded |-> TRUE, raised |-> FALSE,
              log |-> <<api.log, "Successfully registered prompts">>]

\* register_prompts, from the return or the raise of load_prompts_from_api on
register_prompts_from(api) ==
    LET st == IF api.raised
              THEN [loaded |-> loaded_prompts, raised |-> TRUE]
              ELSE store_prompts(api.value, loaded_prompts)
    IN  IF st.raised
        THEN register_prompts_except(st.loaded, api.log)
        ELSE [loaded_prompts |-> st.loaded, prompts_loaded |-> TRUE, raised |-> FALSE,
              log |-> <<api.log, "Successfully registered prompts">>]

\* register_prompts, from the answer to the catalog GET on
register_prompts(resp) == register_prompts_from(load_prompts_from_api(resp))

\* a reading of the body that takes the last element of a list
first_prompt_data_last(resp) ==
    IF resp.kind = "list" THEN resp.items[Len(resp.items)] ELSE resp.obj

\* the object get_prompt_content and the get_prompt_text tool format: the
\* body, or the first element of a body that is a list
first_prompt_data(resp) ==
    IF resp.kind = "list" THEN resp.items[1] ELSE resp.obj

\* a response that always names the id that was asked for
format_response_requested_id(prompt_data, prompt_id) ==
    [prompt_id  |-> prompt_id,
     title      |-> Get(prompt_data, "title", "Unknown"),
     content    |-> Get(prompt_data, "content", "No content available"),
     type       |-> Get(prompt_data, "type", "chat"),
     follow_ups |-> Get(prompt_data, "follow_ups", <<>>)]

\* the PromptContentResponse built from the backend object
format_response(prompt_data, prompt_id) ==
    [prompt_id  |-> Get(prompt_data, "identifier", prompt_id),
     title      |-> Get(prompt_data, "title", "Unknown"),
     content    |-> Get(prompt_data, "content", "No content available"),
     type       |-> Get(prompt_data, "type", "chat"),
     follow_ups |-> Get(prompt_data, "follow_ups", <<>>)]

\* a get_prompt_content without the checks for an empty answer
get_prompt_content_fetched_unchecked(prompt_id, resp) ==
    IF resp.status # "ok"
    THEN [result |-> None, cache |-> prompt_content_cache,
          log |-> "Error fetching prompt content"]
    ELSE [result |-> format_response(first_prompt_data(resp), prompt_id),
          cache |-> Put(prompt_content_cache, prompt_id,
                        format_response(first_prompt_data(resp), prompt_id)),
          log |-> "Cached content for prompt"]

\* a get_prompt_content that returns what it fetched and does not store it
get_prompt_content_fetched_unstored(prompt_id, resp) ==
    IF resp.status # "ok"
    THEN [result |-> None, cache |-> prompt_content_cache,
          log |-> "Error fetching prompt content"]
    ELSE IF resp.kind \in {"empty_object", "empty_list", "null"}
    THEN [result |-> None, cache |-> prompt_content_cache,
          log |-> "Fetching and caching content for prompt"]
    ELSE [result |-> format_response(first_prompt_data(resp), prompt_id),
          cache |-> prompt_content_cache,
          log |-> "Cached content for prompt"]

\* a get_prompt_content that remembers that an id brought nothing
get_prompt_content_fetched_negative(prompt_id, resp) ==
    IF resp.status # "ok"
    THEN [result |-> None, cache |-> Put(prompt_content_cache, prompt_id, None),
          log |-> "Error fetching prompt content"]
    ELSE IF resp.kind \in {"empty_object", "empty_list", "null"}
    THEN [result |-> None, cache |-> Put(prompt_content_cache, prompt_id, None),
          log |-> "Fetching and caching content for prompt"]
    ELSE LET formatted_response == format_response(first_prompt_data(resp), prompt_id)
         IN  [result |-> formatted_response,
              cache  |-> Put(prompt_content_cache, prompt_id, formatted_response),
              log    |-> "Cached content for prompt"]

\* a get_prompt_content that stores its result under the identifier the
\* backend sent
get_prompt_content_fetched_by_identifier(prompt_id, resp) ==
    IF resp.status # "ok"
    THEN [result |-> None, cache |-> prompt_content_cache,
          log |-> "Error fetching prompt content"]
    ELSE IF resp.kind \in {"empty_object", "empty_list", "null"}
    THEN [result |-> None, cache |-> prompt_content_cache,
          log |-> "Fetching and caching content for prompt"]
    ELSE LET formatted_response == format_response(first_prompt_data(resp), prompt_id)
         IN  [result |-> formatted_response,
              cache  |-> Put(prompt_content_cache, formatted_response.prompt_id,
                             formatted_response),
              log    |-> "Cached content for prompt"]

\* get_prompt_content from the answer to its GET on: the value it returns and
\* the content cache it leaves
get_prompt_content_fetched(prompt_id, resp) ==
    IF resp.status # "ok"
    THEN [result |-> None, cache |-> prompt_content_cache,
          log |-> "Error fetching prompt content"]
    ELSE IF resp.kind \in {"empty_object", "empty_list", "null"}
    THEN [result |-> None, cache |-> prompt_content_cache,
          log |-> "Fetching and caching content for prompt"]
    ELSE LET formatted_response == format_response(first_prompt_data(resp), prompt_id)
         IN  [result |-> formatted_response,
              cache  |-> Put(prompt_content_cache, prompt_id, formatted_response),
              log    |-> "Cached content for prompt"]

\* a get_prompt_content that never consults its cache
content_cached_never(prompt_id) == FALSE

\* the cache test that opens get_prompt_content
content_cached(prompt_id) == prompt_id \in DOMAIN prompt_content_cache

get_prompt_metadata(prompt_id) ==
    IF prompt_id \in DOMAIN loaded_prompts THEN loaded_prompts[prompt_id] ELSE None

\* separator.join(items): the items with the separator between them
RECURSIVE join(_, _)
join(separator, items) ==
    IF items = <<>> THEN <<>>
    ELSE IF Len(items) = 1 THEN <<items[1]>>
    ELSE <<items[1], separator>> \o join(separator, Tail(items))

\* a text is the sequence of its pieces; it is the empty string when all
\* of its pieces are
IsEmptyText(text) == \A i \in 1..Len(text) : text[i] = ""

\* a description that never names the categories
format_prompt_description_plain(prompt_id) ==
    LET metadata == Get(loaded_prompts, prompt_id, EmptyMap)
    IN  <<Get(metadata, "title", ""), ": ", Get(metadata, "help_prompt_description", "")>>

\* the text is kept as the sequence of the pieces the f-string joins
format_prompt_description(prompt_id) ==
    LET metadata == Get(loaded_prompts, prompt_id, EmptyMap)
        title == Get(metadata, "title", "")
        description == Get(metadata, "help_prompt_description", "")
        categories == Get(metadata, "categories", <<>>)
        categories_str == IF categories # <<>> THEN join(", ", categories) ELSE <<>>
        formatted_desc == <<title, ": ", description>>
    IN  IF ~IsEmptyText(categories_str)
        THEN formatted_desc \o <<" (Categories: ">> \o categories_str \o <<")">>
        ELSE formatted_desc

\* a get_cached_prompts_data that marks its records restricted
get_cached_prompts_data_restricted ==
    IF ~prompts_loaded THEN {}
    ELSE { [identifier |-> prompt_id,
            title |-> loaded_prompts[prompt_id].title,
            categories |-> loaded_prompts[prompt_id].categories,
            help_prompt_description |-> loaded_prompts[prompt_id].help_prompt_description,
            download_restricted |-> TRUE] : prompt_id \in DOMAIN loaded_prompts }

get_cached_prompts_data ==
    IF ~prompts_loaded THEN {}
    ELSE { [identifier |-> prompt_id,
            title |-> loaded_prompts[prompt_id].title,
            categories |-> loaded_prompts[prompt_id].categories,
            help_prompt_description |-> loaded_prompts[prompt_id].help_prompt_description,
            download_restricted |-> FALSE] : prompt_id \in DOMAIN loaded_prompts }

\* descriptions that are the bare titles
get_all_prompt_descriptions_titles ==
    IF ~prompts_loaded THEN {}
    ELSE { [name |-> prompt_id, description |-> <<loaded_prompts[prompt_id].title>>] :
             prompt_id \in DOMAIN loaded_prompts }

get_all_prompt_descriptions ==
    IF ~prompts_loaded THEN {}
    ELSE { [name |-> prompt_id, description |-> format_prompt_description(prompt_id)] :
             prompt_id \in DOMAIN loaded_prompts }

\* an is_prompt_loaded that knows every name
is_prompt_loaded_always(prompt_id) == TRUE

is_prompt_loaded(prompt_id) == prompt_id \in DOMAIN loaded_prompts

get_prompts_count ==
    IF prompts_loaded THEN Cardinality(DOMAIN loaded_prompts) ELSE 0

---------------------------------------------------------------------------
(* State after construction *)

\* A tool class is written as the name its instances answer to.
ToolClasses == {"get_prompts", "get_prompt_text", "get_casper_workflow"}

\* dict[instance.name] = instance on a dict that keeps the order in which
\* its keys were first set
SetTool(registry, tool_instance) ==
    IF \E i \in 1..Len(registry) : registry[i].name = tool_instance.name
    THEN [i \in 1..Len(registry) |->
            IF registry[i].name = tool_instance.name THEN tool_instance ELSE registry[i]]
    ELSE Append(registry, tool_instance)

\* a register_tool that keeps the instance a name already has
register_tool_keep_first(registry, tool_class, serial) ==
    IF \E i \in 1..Len(registry) : registry[i].name = tool_class
    THEN registry
    ELSE Append(registry, [name |-> tool_class, serial |-> serial])

\* ToolRegistry.register_tool; serial tells the instances of a class apart
register_tool(registry, tool_class, serial) ==
    LET tool_instance == [name |-> tool_class, serial |-> serial]
    IN  SetTool(registry, tool_instance)

\* definitions listed by the newest instance first
get_all_tools_newest_first(registry) ==
    LET newer(a, b) == a.serial > b.serial
    IN  [i \in 1..Len(registry) |-> SortSeq(registry, newer)[i].name]

\* ToolRegistry.get_all_tools: a tool definition is written as its name
get_all_tools(registry) == [i \in 1..Len(registry) |-> registry[i].name]

\* _register_tools
RegisteredTools == <<"get_prompts", "get_prompt_text">>

\* a _register_tools that registers the workflow tool as well
register_tools_with_workflow ==
    register_tool(register_tool(register_tool(<<>>, RegisteredTools[1], 1),
                                RegisteredTools[2], 2), "get_casper_workflow", 3)

\* the registry as __init__ leaves it
register_tools ==
    register_tool(register_tool(<<>>, RegisteredTools[1], 1), RegisteredTools[2], 2)

InFlightTotal == inflight["p1"] + inflight["p2"]

Init ==
    /\ pc = "Created"
    /\ reg = "idle"
    /\ backend_restricted \in SUBSET Ids
    /\ prompts_loaded = FALSE
    /\ loaded_prompts = EmptyMap
    /\ prompt_content_cache = EmptyMap
    /\ inflight = [i \in Ids |-> 0]
    /\ calls = [i \in Ids |-> 0]
    /\ reply = NoReply
    /\ register_log = <<>>
    /\ catalog_flagged = {}
    /\ tools = register_tools
    /\ registered = RegisteredTools

---------------------------------------------------------------------------
(* register_prompts as a coroutine: the call runs to the catalog GET, the   *)
(* resumption runs from the answer to the return                            *)

\* a register_prompts that clears the catalog before it reloads
register_prompts_enter_reset == [prompts_loaded |-> FALSE, loaded_prompts |-> EmptyMap]

\* what the call of register_prompts does to the service before its GET
register_prompts_enter == [prompts_loaded |-> prompts_loaded, loaded_prompts |-> loaded_prompts]

RegisterPromptsCall ==
    /\ reg' = "waiting"
    /\ prompts_loaded' = register_prompts_enter.prompts_loaded
    /\ loaded_prompts' = register_prompts_enter.loaded_prompts

RegisterPromptsResume ==
    /\ reg = "waiting"
    /\ \E resp \in CatalogResponses(backend_restricted) :
         LET r == register_prompts(resp)
         IN  /\ loaded_prompts' = r.loaded_prompts
             /\ prompts_loaded' = r.prompts_loaded
             /\ reg' = IF r.raised THEN "raised" ELSE "done"
             /\ register_log' = r.log
             /\ catalog_flagged' = FlaggedIn(resp)
    /\ UNCHANGED <<pc, backend_restricted, prompt_content_cache, inflight, calls, reply,
                   tools, registered>>

---------------------------------------------------------------------------
(* HaivenMCPServer.run *)

RunEnter ==
    /\ pc = "Created"
    /\ reg = "idle"
    /\ pc' = "CatalogLoading"
    /\ RegisterPromptsCall
    /\ UNCHANGED <<backend_restricted, prompt_content_cache, inflight, calls, reply,
                   register_log, catalog_flagged, tools, registered>>

\* a run() that starts register_prompts as a task and does not await it
RegisterReturned_not_awaited == reg \in {"waiting", "done"}

\* run() goes past `await self._register_prompts()` once it has returned
RegisterReturned == reg = "done"

RunOpenTransport ==
    /\ pc = "CatalogLoading"
    /\ RegisterReturned
    /\ pc' = "Ready"
    /\ UNCHANGED <<reg, backend_restricted, prompts_loaded, loaded_prompts,
                   prompt_content_cache, inflight, calls, reply, register_log, catalog_flagged,
                   tools, registered>>

---------------------------------------------------------------------------
(* get_prompt_content as a coroutine *)

\* `await self.client.get(...)` of get_prompt_content: the GET goes out and
\* the coroutine is suspended
IssueContentGet(prompt_id) ==
    /\ InFlightTotal < MaxInFlight
    /\ calls[prompt_id] < MaxCalls
    /\ inflight' = [inflight EXCEPT ![prompt_id] = @ + 1]
    /\ calls' = [calls EXCEPT ![prompt_id] = @ + 1]

\* a coroutine that sends its GET again when the first brought nothing
FinishContentGet_retry(prompt_id, fetched) ==
    IF fetched.result = None /\ calls[prompt_id] < MaxCalls
    THEN /\ calls' = [calls EXCEPT ![prompt_id] = @ + 1]
         /\ UNCHANGED <<inflight, prompt_content_cache>>
    ELSE /\ inflight' = [inflight EXCEPT ![prompt_id] = @ - 1]
         /\ prompt_content_cache' = fetched.cache
         /\ UNCHANGED calls

\* the answer arrives and the coroutine runs to its return
FinishContentGet(prompt_id, fetched) ==
    /\ inflight' = [inflight EXCEPT ![prompt_id] = @ - 1]
    /\ prompt_content_cache' = fetched.cache
    /\ UNCHANGED calls

---------------------------------------------------------------------------
(* The RPC handlers registered by _register_handlers *)

\* a run() that serves requests while the catalog is still loading
TransportOpen_while_loading == pc \in {"CatalogLoading", "Ready"}

\* server.run dispatches requests once run() has opened the transport
TransportOpen == pc = "Ready"

ListTools ==
    /\ TransportOpen
    /\ reply' = [op |-> "list_tools", tools |-> get_all_tools(tools)]
    /\ UNCHANGED <<pc, reg, backend_restricted, prompts_loaded, loaded_prompts,
                   prompt_content_cache, inflight, calls, register_log, catalog_flagged,
                   tools, registered>>

ListPrompts ==
    /\ TransportOpen
    /\ reply' = [op |-> "list_prompts", prompts |-> get_all_prompt_descriptions]
    /\ UNCHANGED <<pc, reg, backend_restricted, prompts_loaded, loaded_prompts,
                   prompt_content_cache, inflight, calls, register_log, catalog_flagged,
                   tools, registered>>

\* a handler that answers a failed fetch with an empty text
get_prompt_result_blank(name, prompt_data) ==
    IF prompt_data = None
    THEN [op |-> "get_prompt", name |-> name,
          description |-> <<"Prompt content not found">>, text |-> <<"">>]
    ELSE [op |-> "get_prompt", name |-> name,
          description |-> format_prompt_description(name),
          text |-> <<prompt_data.content>>]

\* the GetPromptResult built from what get_prompt_content returned
get_prompt_result(name, prompt_data) ==
    IF prompt_data = None
    THEN [op |-> "get_prompt", name |-> name,
          description |-> <<"Prompt content not found">>,
          text |-> <<"Error: ", "Content for prompt '", name, "' not found">>]
    ELSE [op |-> "get_prompt", name |-> name,
          description |-> format_prompt_description(name),
          text |-> <<prompt_data.content>>]

get_prompt_not_found(name) ==
    [op |-> "get_prompt", name |-> name,
     description |-> <<"Prompt not found">>,
     text |-> <<"Error: ", "Prompt '", name, "' not found">>]

\* the GetPromptResult together with the status of the backend answer it
\* was built from ("none" when no backend call was made)
Answered(result, status) ==
    [op |-> result.op, name |-> result.name, description |-> result.description,
     text |-> result.text, status |-> status]

\* get_prompt up to its return or to the GET of get_prompt_content
GetPrompt(name) ==
    /\ TransportOpen
    /\ IF ~is_prompt_loaded(name)
       THEN /\ reply' = Answered(get_prompt_not_found(name), "none")
            /\ UNCHANGED <<inflight, calls>>
       ELSE IF content_cached(name)
       THEN /\ reply' = Answered(get_prompt_result(name, prompt_content_cache[name]), "none")
            /\ UNCHANGED <<inflight, calls>>
       ELSE /\ IssueContentGet(name)
            /\ UNCHANGED reply
    /\ UNCHANGED <<pc, reg, backend_restricted, prompts_loaded, loaded_prompts,
                   prompt_content_cache, register_log, catalog_flagged,
                   tools, registered>>

\* get_prompt from the answer to the content GET on
GetPromptResume(name) ==
    /\ TransportOpen
    /\ inflight[name] > 0
    /\ \E resp \in ContentAnswers(name, backend_restricted) :
         LET fetched == get_prompt_content_fetched(name, resp)
         IN  /\ FinishContentGet(name, fetched)
             /\ reply' = Answered(get_prompt_result(name, fetched.result), resp.status)
    /\ UNCHANGED <<pc, reg, backend_restricted, prompts_loaded, loaded_prompts,
                   register_log, catalog_flagged, tools, registered>>

---------------------------------------------------------------------------
(* The tools and call_tool *)

\* what GetPromptsToolHandler.execute copies from one backend record; of the
\* copied fields the identifier is kept
filtered_prompt(prompt) == Get(prompt, "identifier", "")

\* an execute that does not call raise_for_status and has no except clause
get_prompts_execute_unchecked(arguments, resp) ==
    << <<"json",
         [prompts |-> [i \in 1..Len(resp.body) |-> filtered_prompt(resp.body[i])],
          total_count |-> Len(resp.body)]>> >>

\* GetPromptsToolHandler.execute, with the answer to its own GET /api/prompts
get_prompts_execute(arguments, resp) ==
    IF resp.status = "http_error"
    THEN << <<"Error: ", "HTTP error from Haiven API: ">> >>
    ELSE IF resp.status # "ok"
    THEN << <<"Error: ", "Error fetching prompts: ">> >>
    ELSE << <<"json",
              [prompts |-> [i \in 1..Len(resp.body) |-> filtered_prompt(resp.body[i])],
               total_count |-> Len(resp.body)]>> >>

\* an execute that does not look at prompt_id before it calls the backend
get_prompt_text_execute_unchecked(arguments, resp) ==
    IF resp.status = "http_error"
    THEN << <<"Error: ", "HTTP error from Haiven API: ">> >>
    ELSE IF resp.status # "ok"
    THEN << <<"Error: ", "Error fetching prompt text: ">> >>
    ELSE << <<"json", format_response(first_prompt_data(resp),
                                      Get(arguments, "prompt_id", NoId))>> >>

\* GetPromptTextToolHandler.execute, with the answer to its own GET
\* /api/download-prompt
get_prompt_text_execute(arguments, resp) ==
    LET prompt_id == Get(arguments, "prompt_id", NoId)
    IN  IF arguments = None
        THEN << <<"Error: ", "Error fetching prompt text: ">> >>
        ELSE IF prompt_id = NoId
        THEN << <<"Error: ", "prompt_id is required">> >>
        ELSE IF resp.status = "http_error"
        THEN << <<"Error: ", "HTTP error from Haiven API: ">> >>
        ELSE IF resp.status # "ok"
        THEN << <<"Error: ", "Error fetching prompt text: ">> >>
        ELSE IF resp.kind \in {"empty_object", "empty_list", "null"}
        THEN << <<"Error: ", "Prompt with ID '", prompt_id, "' not found">> >>
        ELSE << <<"json", format_response(first_prompt_data(resp), prompt_id)>> >>

\* a registry that hands out its first tool for a name it does not know
get_tool_first_tool(name) ==
    IF \E i \in 1..Len(tools) : tools[i].name = name
    THEN [raised |-> "none", error |-> <<>>, tool |-> name]
    ELSE [raised |-> "none", error |-> <<>>, tool |-> tools[1].name]

\* ToolRegistry.get_tool: the tool, or the ValueError it raises
get_tool(name) ==
    IF \E i \in 1..Len(tools) : tools[i].name = name
    THEN [raised |-> "none", error |-> <<>>, tool |-> name]
    ELSE [raised |-> "ValueError", error |-> <<"Tool not found: ", name>>, tool |-> ""]

\* ToolRegistry.execute_tool: what it returns, or the exception that leaves it
execute_tool(name, arguments, resp) ==
    LET found == get_tool(name)
    IN  IF found.raised # "none"
        THEN [raised |-> found.raised, error |-> found.error, content |-> <<>>]
        ELSE [raised |-> "none", error |-> <<>>,
              content |-> IF found.tool = "get_prompts"
                          THEN get_prompts_execute(arguments, resp)
                          ELSE get_prompt_text_execute(arguments, resp)]

\* a call_tool handler without its try/except
call_tool_uncaught(name, arguments, resp) == execute_tool(name, arguments, resp)

\* the call_tool handler: execute_tool under `except ValueError`
call_tool(name, arguments, resp) ==
    LET result == execute_tool(name, arguments, resp)
    IN  IF result.raised = "ValueError"
        THEN [raised |-> "none", error |-> <<>>,
              content |-> << <<"Error: ">> \o result.error >>]
        ELSE result

ToolNames == {"get_prompts", "get_prompt_text", "no_such_tool"}

\* the arguments a client may send with a call of the named tool
ToolArguments(name) ==
    IF name = "get_prompt_text"
    THEN {EmptyMap} \cup { [prompt_id |-> i] : i \in Ids \cup {NoId} }
    ELSE {EmptyMap}

NoAnswer == [status |-> "none"]

\* what the backend may answer to the GET the named tool issues
BackendAnswers(name, arguments) ==
    IF name = "get_prompts" THEN CatalogResponses(backend_restricted)
    ELSE IF name = "get_prompt_text" /\ Get(arguments, "prompt_id", NoId) # NoId
    THEN ContentAnswers(arguments.prompt_id, backend_restricted)
    ELSE {NoAnswer}

\* The tools read and write no state of the service, so their GET and its
\* answer are taken in one step.
CallTool(name) ==
    /\ TransportOpen
    /\ \E arguments \in ToolArguments(name) :
         \E resp \in BackendAnswers(name, arguments) :
           LET result == call_tool(name, arguments, resp)
           IN  reply' = [op |-> "call_tool", name |-> name, arguments |-> arguments,
                         status |-> resp.status, raised |-> result.raised,
                         content |-> result.content]
    /\ UNCHANGED <<pc, reg, backend_restricted, prompts_loaded, loaded_prompts,
                   prompt_content_cache, inflight, calls, register_log,
                   catalog_flagged, tools, registered>>

---------------------------------------------------------------------------
(* The server: run() and the requests of an RPC client *)

Next ==
    \/ RunEnter
    \/ RegisterPromptsResume
    \/ RunOpenTransport
    \/ ListTools
    \/ ListPrompts
    \/ \E name \in ToolNames : CallTool(name)
    \/ \E name \in Ids \cup {NoId} : GetPrompt(name)
    \/ \E name \in Ids : GetPromptResume(name)

Spec == Init /\ [][Next]_vars

\* asyncio runs run() once it is scheduled, and every GET of the shared client
\* ends with an answer or, after its 60 s timeout, with a fault
LiveSpec ==
    /\ Spec
    /\ WF_vars(RunEnter)
    /\ WF_vars(RegisterPromptsResume)
    /\ WF_vars(RunOpenTransport)

(* The start of the server and the prompts/get handler alone: every        *)
(* interleaving of get_prompt requests suspended at their content GET.     *)

PromptNext ==
    \/ RunEnter
    \/ RegisterPromptsResume
    \/ RunOpenTransport
    \/ \E name \in Ids \cup {NoId} : GetPrompt(name)
    \/ \E name \in Ids : GetPromptResume(name)

PromptSpec == Init /\ [][PromptNext]_vars

---------------------------------------------------------------------------
(* The service driven directly, as its unit tests drive it: calls of       *)
(* register_prompts any number of times, and calls of get_prompt_content   *)
(* for any identifier, loaded or not.  The two touch disjoint fields of    *)
(* the service, so each is explored by a specification of its own.         *)

SvcRegisterPrompts ==
    /\ reg \in {"idle", "done"}
    /\ RegisterPromptsCall
    /\ UNCHANGED <<pc, backend_restricted, prompt_content_cache, inflight, calls, reply,
                   register_log, catalog_flagged, tools, registered>>

\* get_prompt_content up to its return or to its GET
SvcGetPromptContent(prompt_id) ==
    /\ IF content_cached(prompt_id)
       THEN /\ reply' = [op |-> "get_prompt_content", name |-> prompt_id,
                         result |-> prompt_content_cache[prompt_id],
                         log |-> "Using cached content for prompt"]
            /\ UNCHANGED <<inflight, calls>>
       ELSE /\ IssueContentGet(prompt_id)
            /\ UNCHANGED reply
    /\ UNCHANGED <<pc, reg, backend_restricted, prompts_loaded, loaded_prompts,
                   prompt_content_cache, register_log, catalog_flagged,
                   tools, registered>>

\* get_prompt_content from the answer to its GET on
SvcGetPromptContentResume(prompt_id) ==
    /\ inflight[prompt_id] > 0
    /\ \E resp \in ContentAnswers(prompt_id, backend_restricted) :
         LET fetched == get_prompt_content_fetched(prompt_id, resp)
         IN  /\ FinishContentGet(prompt_id, fetched)
             /\ reply' = [op |-> "get_prompt_content", name |-> prompt_id,
                          result |-> fetched.result, log |-> fetched.log,
                          answer |-> resp]
    /\ UNCHANGED <<pc, reg, backend_restricted, prompts_loaded, loaded_prompts,
                   register_log, catalog_flagged, tools, registered>>

RegisterNext ==
    \/ SvcRegisterPrompts
    \/ RegisterPromptsResume

RegisterSpec == Init /\ [][RegisterNext]_vars

ContentNext ==
    \/ \E prompt_id \in Ids : SvcGetPromptContent(prompt_id)
    \/ \E prompt_id \in Ids : SvcGetPromptContentResume(prompt_id)

ContentSpec == Init /\ [][ContentNext]_vars

(* The first call of register_prompts on a fresh service, with the answer   *)
(* of the backend kept beside the result, as a unit test keeps its mock's   *)
(* return value.                                                            *)

SvcRegisterPromptsFirst ==
    /\ reg = "idle"
    /\ SvcRegisterPrompts

\* register_prompts from the answer to its GET to its return
SvcRegisterPromptsReturn ==
    /\ reg = "waiting"
    /\ \E resp \in CatalogResponses(backend_restricted) :
         LET r == register_prompts(resp)
         IN  /\ loaded_prompts' = r.loaded_prompts
             /\ prompts_loaded' = r.prompts_loaded
             /\ reg' = IF r.raised THEN "raised" ELSE "done"
             /\ register_log' = r.log
             /\ catalog_flagged' = FlaggedIn(resp)
             /\ reply' = [op |-> "register_prompts", answer |-> resp]
    /\ UNCHANGED <<pc, backend_restricted, prompt_content_cache, inflight, calls,
                   tools, registered>>

CatalogNext ==
    \/ SvcRegisterPromptsFirst
    \/ SvcRegisterPromptsReturn

CatalogSpec == Init /\ [][CatalogNext]_vars

(* register_prompts with load_prompts_from_api patched, as                  *)
(* test_register_prompts_success patches it: the patch returns any list of  *)
(* records, flagged or not, and the loop of register_prompts runs on it.    *)

SvcRegisterPromptsPatched ==
    /\ reg = "idle"
    /\ \E prompts_data \in CatalogBodies :
         LET r == register_prompts_from([raised |-> FALSE, value |-> prompts_data,
                                         log |-> "patched"])
         IN  /\ loaded_prompts' = r.loaded_prompts
             /\ prompts_loaded' = r.prompts_loaded
             /\ reg' = IF r.raised THEN "raised" ELSE "done"
             /\ register_log' = r.log
             /\ reply' = [op |-> "register_prompts", returned |-> prompts_data]
    /\ UNCHANGED <<pc, backend_restricted, prompt_content_cache, inflight, calls,
                   catalog_flagged, tools, registered>>

PatchedNext == SvcRegisterPromptsPatched

PatchedSpec == Init /\ [][PatchedNext]_vars

(* The read operations of the service driven directly on a catalog whose   *)
(* records differ in their description and in their categories.            *)

DescribedCategories == {<<>>, <<"a">>, <<"a", "b">>, <<"b", "a">>, <<"">>}

DescribedRecords(restricted) ==
    { [identifier |-> i, title |-> "T1", help_prompt_description |-> d,
       categories |-> c, download_restricted |-> (i \in restricted)] :
        i \in Ids, d \in {"D", ""}, c \in DescribedCategories }

DescribedResponses(restricted) ==
    { [status |-> "ok", body |-> b] :
        b \in { s \in SeqsUpTo(DescribedRecords(restricted), MaxCatalog) : UniqueIds(s) } }

\* register_prompts from the answer to its GET to its return
SvcRegisterDescribed ==
    /\ reg = "waiting"
    /\ \E resp \in DescribedResponses(backend_restricted) :
         LET r == register_prompts(resp)
         IN  /\ loaded_prompts' = r.loaded_prompts
             /\ prompts_loaded' = r.prompts_loaded
             /\ reg' = IF r.raised THEN "raised" ELSE "done"
             /\ register_log' = r.log
             /\ catalog_flagged' = FlaggedIn(resp)
    /\ UNCHANGED <<pc, backend_restricted, prompt_content_cache, inflight, calls, reply,
                   tools, registered>>

SvcFormatPromptDescription(prompt_id) ==
    /\ reply' = [op |-> "format_prompt_description", name |-> prompt_id,
                 text |-> format_prompt_description(prompt_id)]
    /\ UNCHANGED <<pc, reg, backend_restricted, prompts_loaded, loaded_prompts,
                   prompt_content_cache, inflight, calls, register_log, catalog_flagged,
                   tools, registered>>

SvcGetAllPromptDescriptions ==
    /\ reply' = [op |-> "get_all_prompt_descriptions",
                 prompts |-> get_all_prompt_descriptions]
    /\ UNCHANGED <<pc, reg, backend_restricted, prompts_loaded, loaded_prompts,
                   prompt_content_cache, inflight, calls, register_log, catalog_flagged,
                   tools, registered>>

DescribeNext ==
    \/ SvcRegisterPromptsFirst
    \/ SvcRegisterDescribed
    \/ \E prompt_id \in Ids : SvcFormatPromptDescription(prompt_id)
    \/ SvcGetAllPromptDescriptions

DescribeSpec == Init /\ [][DescribeNext]_vars

(* get_prompt_content called again and again, each call after the one       *)
(* before it has returned.                                                  *)

SvcGetPromptContentAlone(prompt_id) ==
    /\ InFlightTotal = 0
    /\ SvcGetPromptContent(prompt_id)

RefetchNext ==
    \/ \E prompt_id \in Ids : SvcGetPromptContentAlone(prompt_id)
    \/ \E prompt_id \in Ids : SvcGetPromptContentResume(prompt_id)

RefetchSpec == Init /\ [][RefetchNext]_vars

(* One get_prompt_content on a fresh service, against answers whose objects *)
(* hold any subset of the five keys and whose lists hold up to two objects. *)

ContentKeys == {"identifier", "title", "content", "type", "follow_ups"}

\* the value the backend gives a key of a content object
ContentValue(key) ==
    CASE key = "identifier" -> "p2"
      [] key = "title" -> "T1"
      [] key = "content" -> "c1"
      [] key = "type" -> "cards"
      [] OTHER -> <<"f1">>

NormalizedObjects == { [k \in keys |-> ContentValue(k)] : keys \in SUBSET ContentKeys }

NormalizedResponses ==
    { [status |-> "ok", kind |-> "object", obj |-> o, items |-> <<>>] :
        o \in NormalizedObjects \ {EmptyMap} }
    \cup { [status |-> "ok", kind |-> "list", obj |-> EmptyMap, items |-> <<o>>] :
        o \in NormalizedObjects }
    \cup { [status |-> "ok", kind |-> "list", obj |-> EmptyMap, items |-> <<o, second>>] :
        o \in NormalizedObjects,
        second \in {EmptyMap, [k \in ContentKeys |-> ContentValue(k)]} }
    \cup NoContentResponses

NormalizedAnswers(prompt_id, restricted) ==
    IF prompt_id \in restricted THEN NoContentResponses ELSE NormalizedResponses

\* the first get_prompt_content of the service
SvcGetPromptContentFirst(prompt_id) ==
    /\ \A i \in Ids : calls[i] = 0
    /\ SvcGetPromptContent(prompt_id)

\* get_prompt_content from the answer to its GET on
SvcGetPromptContentNormalized(prompt_id) ==
    /\ inflight[prompt_id] > 0
    /\ \E resp \in NormalizedAnswers(prompt_id, backend_restricted) :
         LET fetched == get_prompt_content_fetched(prompt_id, resp)
         IN  /\ FinishContentGet(prompt_id, fetched)
             /\ reply' = [op |-> "get_prompt_content", name |-> prompt_id,
                          result |-> fetched.result, log |-> fetched.log,
                          answer |-> resp]
    /\ UNCHANGED <<pc, reg, backend_restricted, prompts_loaded, loaded_prompts,
                   register_log, catalog_flagged, tools, registered>>

NormalizeNext ==
    \/ \E prompt_id \in Ids : SvcGetPromptContentFirst(prompt_id)
    \/ \E prompt_id \in Ids : SvcGetPromptContentNormalized(prompt_id)

NormalizeSpec == Init /\ [][NormalizeNext]_vars

(* load_prompts_from_api driven directly, before and after the service has *)
(* loaded a catalog.                                                        *)

\* load_prompts_from_api from its call to its return or its raise
SvcLoadPromptsFromApi ==
    /\ \E resp \in CatalogResponses(backend_restricted) :
         LET api == load_prompts_from_api(resp)
         IN  reply' = [op |-> "load_prompts_from_api", raised |-> api.raised,
                       value |-> api.value, answer |-> resp]
    /\ UNCHANGED <<pc, reg, backend_restricted, prompts_loaded, loaded_prompts,
                   prompt_content_cache, inflight, calls, register_log,
                   catalog_flagged, tools, registered>>

LoadNext ==
    \/ SvcRegisterPromptsFirst
    \/ RegisterPromptsResume
    \/ SvcLoadPromptsFromApi

LoadSpec == Init /\ [][LoadNext]_vars

(* GetCasperWorkflowToolHandler, made on its own as its tests make it.      *)
(* A text is the sequence of its lines; the headings are written without   *)
(* their emoji.                                                            *)

ExploreHeading == "# Casper's Collaborative Exploration Phase"
CraftHeading == "# Casper's Craft Phase (TDD)"
PolishHeading == "# Casper's Polish Phase"
\* the end marker of explore: the craft heading without its suffix
CraftMarker == "# Casper's Craft Phase"
NoMarker == ""

SECTIONS == {"explore", "craft", "polish", "full"}

SECTION_MARKERS ==
    [section \in {"explore", "craft", "polish"} |->
        CASE section = "explore" -> <<ExploreHeading, CraftMarker>>
          [] section = "craft" -> <<CraftHeading, PolishHeading>>
          [] OTHER -> <<PolishHeading, NoMarker>>]

WorkflowLines == {ExploreHeading, CraftHeading, PolishHeading, CraftMarker, "text"}

\* marker in line, for the lines of WorkflowLines
Contains(line, marker) ==
    line = marker \/ (line = CraftHeading /\ marker = CraftMarker)

\* content.find(marker, start): the first line from start on that holds the
\* marker, 0 when there is none
find(content, marker, start) ==
    LET hits == { i \in start..Len(content) : Contains(content[i], marker) }
    IN  IF hits = {} THEN 0 ELSE CHOOSE i \in hits : \A j \in hits : i <= j

\* an _extract_section that never cuts at the end marker
extract_section_to_end(content, section) ==
    IF section = "full" \/ section \notin DOMAIN SECTION_MARKERS
    THEN content
    ELSE LET start_index == find(content, SECTION_MARKERS[section][1], 1)
         IN  IF start_index = 0 THEN content
             ELSE SubSeq(content, start_index, Len(content))

\* GetCasperWorkflowToolHandler._extract_section
extract_section(content, section) ==
    IF section = "full"
    THEN content
    ELSE IF section \notin DOMAIN SECTION_MARKERS
    THEN content
    ELSE LET start_marker == SECTION_MARKERS[section][1]
             end_marker == SECTION_MARKERS[section][2]
             start_index == find(content, start_marker, 1)
         IN  IF start_index = 0
             THEN content
             ELSE IF end_marker # NoMarker
             THEN LET end_index == find(content, end_marker, start_index)
                  IN  IF end_index = 0
                      THEN SubSeq(content, start_index, Len(content))
                      ELSE SubSeq(content, start_index, end_index - 1)
             ELSE SubSeq(content, start_index, Len(content))

\* the handler made without client and server, no backend involved
CasperInit ==
    /\ pc = "Created"
    /\ reg = "idle"
    /\ backend_restricted = {}
    /\ prompts_loaded = FALSE
    /\ loaded_prompts = EmptyMap
    /\ prompt_content_cache = EmptyMap
    /\ inflight = [i \in Ids |-> 0]
    /\ calls = [i \in Ids |-> 0]
    /\ reply = NoReply
    /\ register_log = <<>>
    /\ catalog_flagged = {}
    /\ tools = <<>>
    /\ registered = <<>>

\* the arguments of one call of _extract_section
ExtractInit ==
    /\ CasperInit!1 /\ CasperInit!2 /\ CasperInit!3 /\ CasperInit!4
    /\ CasperInit!5 /\ CasperInit!6 /\ CasperInit!7 /\ CasperInit!8
    /\ CasperInit!10 /\ CasperInit!11 /\ CasperInit!12 /\ CasperInit!13
    /\ reply \in [op : {"call"},
                  content : SeqsUpTo(WorkflowLines, MaxLines),
                  section : SECTIONS \cup {"summary"}]

SvcExtractSection ==
    /\ reply.op = "call"
    /\ reply' = [op |-> "_extract_section", content |-> reply.content,
                 section |-> reply.section,
                 result |-> extract_section(reply.content, reply.section)]
    /\ UNCHANGED <<pc, reg, backend_restricted, prompts_loaded, loaded_prompts,
                   prompt_content_cache, inflight, calls, register_log,
                   catalog_flagged, tools, registered>>

ExtractNext == SvcExtractSection

ExtractSpec == ExtractInit /\ [][ExtractNext]_vars

\* the server the handler was made with: none, or one whose prompt service
\* answers get_rules_content with a text, with None, or by raising
WorkflowContents ==
    { <<ExploreHeading, "text", CraftHeading, PolishHeading>>,
      <<"Error:", "text">>,
      <<>> }

CasperServers ==
    {[kind |-> "none", content |-> <<>>],
     [kind |-> "missing", content |-> <<>>],
     [kind |-> "raises", content |-> <<>>]}
        \cup [kind : {"rules"}, content : WorkflowContents]

\* an argument that is a list, not a string
ListValue == "['explore']"

\* text.startswith("Error:")
StartsWithError(text) == Len(text) > 0 /\ text[1] = "Error:"

\* GetCasperWorkflowToolHandler._load_casper_workflow
load_casper_workflow(server) ==
    CASE server.kind = "rules" -> server.content
      [] server.kind = "missing" ->
            <<"Error:", "Casper workflow rules not found for rule_id 'casper-workflow'.">>
      [] server.kind = "raises" ->
            <<"Error:", "Error loading Casper workflow from API:", "get_rules_content failed">>
      [] OTHER ->
            <<"Error:", "No prompt service available - tool cannot function properly">>

\* GetCasperWorkflowToolHandler._get_filename_for_section
get_filename_for_section(section, tool_context) ==
    CASE tool_context = "cursor" -> <<"casper-", section, ".mdc">>
      [] tool_context = "vscode" -> <<"casper-", section, ".instructions.md">>
      [] OTHER -> <<"casper-", section, ".md">>

\* GetCasperWorkflowToolHandler._add_cursor_frontmatter, for a content
\* without a frontmatter of its own
add_cursor_frontmatter(content, section) ==
    <<"---", "description: Casper workflow methodology", section, "---">> \o content

\* GetCasperWorkflowToolHandler._save_casper_workflow: the dictionary it
\* returns and the file it wrote, on a file system that takes the file
\* ("ok") or refuses it ("denied")
save_casper_workflow(content, section, tool_context, file_system) ==
    LET filename == get_filename_for_section(section, tool_context)
        written == IF tool_context = "cursor"
                   THEN add_cursor_frontmatter(content, section)
                   ELSE content
    IN  IF tool_context = ListValue
        THEN \* mapping.get(tool_context, ...) in _get_target_directory
             [result |-> [status |-> "error",
                          error |-> <<"Error saving Casper workflow:",
                                      "unhashable type: 'list'">>],
              written |-> <<>>]
        ELSE IF file_system = "ok"
        THEN [result |-> [status |-> "success", file_path |-> filename,
                          tool_context |-> tool_context, section |-> section,
                          content_preview |-> written],
              written |-> <<written>>]
        ELSE [result |-> [status |-> "error",
                          error |-> <<"Error saving Casper workflow:", "Permission denied">>],
              written |-> <<>>]

\* TextContent(type="text", text=...)
TextContent(text) == [type |-> "text", text |-> text]

\* json.dumps of the response of save mode and of share mode
save_response(section, tool_context, save_result) ==
    <<"{", "tool", "get_casper_workflow", "mode", "save", "section", section,
      "tool_context", tool_context, "file_path">> \o save_result.file_path
        \o <<"content_preview">> \o save_result.content_preview
        \o <<"status", "success", "}">>

share_response(section, section_content) ==
    <<"{", "tool", "get_casper_workflow", "mode", "share", "section", section,
      "content">> \o section_content \o <<"}">>

\* the arguments of a call: None (<<>>) or a dictionary with any of the keys
\* section, mode and tool_context, each a string or a list
CasperArguments ==
    {<<>>} \cup
    { <<d>> : d \in UNION { [keys -> {"explore", "summary", "save", "share", "cursor",
                                      ListValue}] :
                             keys \in SUBSET {"section", "mode", "tool_context"} } }

CasperCalls ==
    [op : {"call"}, arguments : CasperArguments, server : CasperServers,
     file_system : {"ok", "denied"}, detected : {"generic", "vscode"}]

\* the body of the try of execute: whether an exception left it and with
\* which message, the calls of _save_casper_workflow made, the list returned
execute_body(call) ==
    IF call.arguments = <<>>
    THEN \* arguments.get on None
         [raised |-> TRUE, error |-> "'NoneType' object has no attribute 'get'",
          saves |-> <<>>, returned |-> <<>>]
    ELSE LET arguments == call.arguments[1]
             section == Get(arguments, "section", "full")
             mode == Get(arguments, "mode", "share")
             tool_context == Get(arguments, "tool_context", call.detected)
             full_content == load_casper_workflow(call.server)
             section_content == extract_section(full_content, section)
             save == save_casper_workflow(section_content, section, tool_context,
                                          call.file_system)
         IN  IF StartsWithError(full_content)
             THEN [raised |-> FALSE, error |-> "", saves |-> <<>>,
                   returned |-> <<TextContent(full_content)>>]
             ELSE IF section = ListValue
             THEN \* section not in SECTION_MARKERS, in _extract_section
                  [raised |-> TRUE, error |-> "unhashable type: 'list'",
                   saves |-> <<>>, returned |-> <<>>]
             ELSE IF mode = "save"
             THEN IF save.result.status = "error"
                  THEN [raised |-> FALSE, error |-> "", saves |-> <<save>>,
                        returned |-> <<TextContent(<<"Error:">> \o save.result.error)>>]
                  ELSE [raised |-> FALSE, error |-> "", saves |-> <<save>>,
                        returned |-> <<TextContent(save_response(section, tool_context,
                                                                 save.result))>>]
             ELSE [raised |-> FALSE, error |-> "", saves |-> <<>>,
                   returned |-> <<TextContent(share_response(section, section_content))>>]

\* an execute without its try
execute_uncaught(call) == execute_body(call)

\* GetCasperWorkflowToolHandler.execute: the body, and the except clause
\* that turns an exception into a single item
execute(call) ==
    LET body == execute_body(call)
    IN  IF body.raised
        THEN [raised |-> FALSE, error |-> "", saves |-> body.saves,
              returned |-> <<TextContent(<<"Error:",
                                           "Error executing get_casper_workflow tool:",
                                           body.error>>)>>]
        ELSE body

\* the arguments and the surroundings of one call of execute
ExecuteInit ==
    /\ CasperInit!1 /\ CasperInit!2 /\ CasperInit!3 /\ CasperInit!4
    /\ CasperInit!5 /\ CasperInit!6 /\ CasperInit!7 /\ CasperInit!8
    /\ CasperInit!10 /\ CasperInit!11 /\ CasperInit!12 /\ CasperInit!13
    /\ reply \in CasperCalls

SvcCasperExecute ==
    /\ reply.op = "call"
    /\ LET done == execute(reply)
       IN  reply' = [op |-> "get_casper_workflow", call |-> reply,
                     raised |-> done.raised, saves |-> done.saves,
                     returned |-> done.returned]
    /\ UNCHANGED <<pc, reg, backend_restricted, prompts_loaded, loaded_prompts,
                   prompt_content_cache, inflight, calls, register_log,
                   catalog_flagged, tools, registered>>

CasperNext == SvcCasperExecute

CasperSpec == ExecuteInit /\ [][CasperNext]_vars

(* The construction of the server for every combination of its arguments   *)
(* and of the environment.  An optional string is <<>> when it is None and  *)
(* <<s>> when it is the string s.                                           *)

ApiKeys == {<<>>, <<"">>, <<"k1">>}
SessionCookies == {<<>>, <<"">>, <<"s1">>}
DisableAuthEnv == {<<>>, <<"true">>, <<"TRUE">>, <<"false">>, <<"1">>}

\* the truth value Python gives an optional string
truthy(value) == value # <<>> /\ value[1] # ""

\* os.getenv("HAIVEN_DISABLE_AUTH", "false").lower() == "true"
disable_auth(env) ==
    LET value == IF env = <<>> THEN "false" ELSE env[1]
        lower == IF value = "TRUE" THEN "true" ELSE value
    IN  lower = "true"

\* the headers, the cookies and the log line of HaivenMCPServer.__init__
client_auth(session_cookie, api_key, env) ==
    LET headers == [k \in {"Content-Type"} |-> <<"application/json">>]
        cookies == EmptyMap
    IN  IF truthy(api_key)
        THEN [headers |-> Put(headers, "Authorization", <<"Bearer ", api_key[1]>>),
              cookies |-> cookies, log |-> "Using API key authentication"]
        ELSE IF disable_auth(env)
        THEN [headers |-> headers, cookies |-> cookies,
              log |-> "Authentication disabled via HAIVEN_DISABLE_AUTH=true"]
        ELSE [headers |-> headers, cookies |-> cookies,
              log |-> "No authentication provided"]

SvcConstruct ==
    /\ \E session_cookie \in SessionCookies, api_key \in ApiKeys, env \in DisableAuthEnv :
         LET auth == client_auth(session_cookie, api_key, env)
         IN  reply' = [op |-> "HaivenMCPServer", session_cookie |-> session_cookie,
                       api_key |-> api_key, env |-> env, headers |-> auth.headers,
                       cookies |-> auth.cookies, log |-> auth.log]
    /\ UNCHANGED <<pc, reg, backend_restricted, prompts_loaded, loaded_prompts,
                   prompt_content_cache, inflight, calls, register_log,
                   catalog_flagged, tools, registered>>

AuthNext == SvcConstruct

AuthSpec == Init /\ [][AuthNext]_vars

(* The registry driven directly: register_tool for any class in any order, *)
(* as often as the bound allows, and get_all_tools in between.             *)

\* ToolRegistry.__init__
RegistryInit ==
    /\ pc = "Created"
    /\ reg = "idle"
    /\ backend_restricted \in SUBSET Ids
    /\ prompts_loaded = FALSE
    /\ loaded_prompts = EmptyMap
    /\ prompt_content_cache = EmptyMap
    /\ inflight = [i \in Ids |-> 0]
    /\ calls = [i \in Ids |-> 0]
    /\ reply = NoReply
    /\ register_log = <<>>
    /\ catalog_flagged = {}
    /\ tools = <<>>
    /\ registered = <<>>

SvcRegisterTool(tool_class) ==
    /\ Len(registered) < MaxRegistrations
    /\ tools' = register_tool(tools, tool_class, Len(registered) + 1)
    /\ registered' = Append(registered, tool_class)
    /\ UNCHANGED <<pc, reg, backend_restricted, prompts_loaded, loaded_prompts,
                   prompt_content_cache, inflight, calls, reply, register_log,
                   catalog_flagged>>

SvcGetAllTools ==
    /\ reply' = [op |-> "get_all_tools", tools |-> get_all_tools(tools)]
    /\ UNCHANGED <<pc, reg, backend_restricted, prompts_loaded, loaded_prompts,
                   prompt_content_cache, inflight, calls, register_log,
                   catalog_flagged, tools, registered>>

RegistryNext ==
    \/ \E tool_class \in ToolClasses : SvcRegisterTool(tool_class)
    \/ SvcGetAllTools

RegistrySpec == RegistryInit /\ [][RegistryNext]_vars

(* The registry and the call_tool handler driven directly with a mocked     *)
(* client, as tests/tools drive them: the request, the answer of the mock,  *)
(* the outcome of ToolRegistry.execute_tool and the outcome of the handler  *)
(* are kept side by side.                                                   *)

\* arguments as a direct caller may pass them: a dict, or None
DirectArguments(name) ==
    IF name = "get_prompt_text" THEN ToolArguments(name) \cup {None} ELSE ToolArguments(name)

DirectAnswers(name, arguments) ==
    IF arguments = None THEN {NoAnswer} ELSE BackendAnswers(name, arguments)

\* BaseTool.__init__ keeps the server it is given, or None
ServerRefs == {"server", "None"}

SvcCallTool(name) ==
    /\ \E arguments \in DirectArguments(name), server \in ServerRefs :
         \E resp \in DirectAnswers(name, arguments) :
           reply' = [op |-> "tool_call", name |-> name, arguments |-> arguments,
                     server |-> server, answer |-> resp,
                     executed |-> execute_tool(name, arguments, resp),
                     handled |-> call_tool(name, arguments, resp)]
    /\ UNCHANGED <<pc, reg, backend_restricted, prompts_loaded, loaded_prompts,
                   prompt_content_cache, inflight, calls, register_log,
                   catalog_flagged, tools, registered>>

ToolNext == \E name \in ToolNames : SvcCallTool(name)

ToolSpec == Init /\ [][ToolNext]_vars

---------------------------------------------------------------------------
(* Properties *)

\* C1: whenever an RPC handler (list_tools, call_tool, list_prompts,
\* get_prompt) has run or is suspended at its GET, register_prompts has
\* returned and prompts_loaded is true.
C1_HandlersOnlyAfterCatalogLoad ==
    (reply.op \in {"list_tools", "call_tool", "list_prompts", "get_prompt"}
       \/ InFlightTotal > 0)
    => (reg = "done" /\ prompts_loaded)

C1_Witness ==
    /\ reply.op = "get_prompt"
    /\ InFlightTotal > 0
    /\ prompts_loaded

\* C2: whatever the backend answers to the catalog GET, register_prompts
\* returns without raising and run() opens the transport: the server
\* eventually is Ready.
C2_EventuallyReady == <>(pc = "Ready")

C2_Witness ==
    /\ pc = "Ready"
    /\ Len(register_log) = 2
    /\ register_log[2] = "Failed to register prompts"

\* C3: after a backend failure (HTTP error status or transport fault) of the
\* catalog GET, prompts_loaded is true, get_prompts_count is 0 and every read
\* method returns: the empty catalog, not loaded, no metadata, the empty
\* description.
C3_UsableAfterBackendFailure ==
    (/\ reg = "done"
     /\ register_log[1] \in {"HTTP error loading prompts", "Error loading prompts from API"})
    => /\ prompts_loaded
       /\ get_prompts_count = 0
       /\ get_cached_prompts_data = {}
       /\ get_all_prompt_descriptions = {}
       /\ \A id \in Ids \cup {NoId} :
            /\ ~is_prompt_loaded(id)
            /\ get_prompt_metadata(id) = None
            /\ format_prompt_description(id) = <<"", ": ", "">>

C3_Witness ==
    /\ reg = "done"
    /\ register_log[1] = "HTTP error loading prompts"
    /\ reply.op = "list_prompts"

\* C4: an identifier whose record in the catalog answer is flagged
\* download_restricted is in no record of get_cached_prompts_data and
\* is_prompt_loaded is false for it.
C4_RestrictedNeverCached ==
    \A id \in catalog_flagged :
        /\ id \notin { r.identifier : r \in get_cached_prompts_data }
        /\ ~is_prompt_loaded(id)

C4_Witness ==
    /\ pc = "Ready"
    /\ catalog_flagged # {}
    /\ get_cached_prompts_data # {}

\* C5: no reply to an RPC request carries the identifier of a record the
\* backend flags download_restricted: not the names of prompts/list, the
\* prompt of prompts/get, the listing of get_prompts, nor the prompt asked of
\* get_prompt_text.
C5_NoRestrictedInReplies ==
    LET carried ==
          IF reply.op = "list_prompts"
          THEN { d.name : d \in reply.prompts }
          ELSE IF reply.op = "get_prompt" /\ Head(reply.text) # "Error: "
          THEN {reply.name}
          ELSE IF reply.op = "call_tool" /\ Head(reply.content[1]) = "json"
          THEN IF reply.name = "get_prompts"
               THEN { reply.content[1][2].prompts[i] :
                        i \in 1..Len(reply.content[1][2].prompts) }
               ELSE {reply.arguments.prompt_id}
          ELSE {}
    IN  carried \cap backend_restricted = {}

\* C6 as stated: get_prompt_content issues at most one GET per identifier.
C6_AtMostOneCallPerId == \A id \in Ids : calls[id] <= 1

\* C6 as amended: get_prompt_content issues a GET for an identifier only
\* while that identifier is not in the content cache, and one GET at a time.
C6_NoCallOnceCached ==
    [][\A id \in Ids :
         calls'[id] # calls[id]
         => (id \notin DOMAIN prompt_content_cache /\ calls'[id] = calls[id] + 1)]_vars

C6_Witness ==
    /\ reply.op = "get_prompt_content"
    /\ reply.log = "Using cached content for prompt"
    /\ calls[reply.name] = 2

\* C7: a call of get_prompt_content for an identifier that is in the content
\* cache returns the cached object and issues no GET, and a fetch that
\* returns content leaves that same object in the cache; so the second of two
\* consecutive calls returns what the first returned.
C7_CachedFetchIsStable ==
    [][\A id \in Ids :
         /\ (id \in DOMAIN prompt_content_cache /\ SvcGetPromptContent(id))
            => /\ calls' = calls
               /\ inflight' = inflight
               /\ prompt_content_cache' = prompt_content_cache
               /\ reply'.result = prompt_content_cache[id]
         /\ (SvcGetPromptContentResume(id) /\ reply'.result # None)
            => /\ id \in DOMAIN prompt_content_cache'
               /\ prompt_content_cache'[id] = reply'.result]_vars

C7_Witness ==
    /\ reply.op = "get_prompt_content"
    /\ reply.log = "Using cached content for prompt"
    /\ reply.result = prompt_content_cache[reply.name]
    /\ calls[reply.name] = 1

\* C8: once an identifier is in the content cache it stays there with the
\* same value.
C8_CacheEntryImmutable ==
    [][\A id \in DOMAIN prompt_content_cache :
         /\ id \in DOMAIN prompt_content_cache'
         /\ prompt_content_cache'[id] = prompt_content_cache[id]]_vars

\* C9: once prompts_loaded is true it stays true, over repeated and failing
\* calls of register_prompts.
C9_LoadedNeverReverts == [][prompts_loaded => prompts_loaded']_vars

C9_Witness ==
    /\ prompts_loaded
    /\ reg = "done"
    /\ register_log[2] = "Failed to register prompts"
    /\ loaded_prompts # EmptyMap

\* C10: once the transport is open the server stays Ready and no step
\* changes prompts_loaded or loaded_prompts.
C10_ReadyIsTerminal ==
    [][pc = "Ready"
       => /\ pc' = "Ready"
          /\ prompts_loaded' = prompts_loaded
          /\ loaded_prompts' = loaded_prompts]_vars

C10_Witness ==
    /\ pc = "Ready"
    /\ reply.op = "call_tool"
    /\ loaded_prompts # EmptyMap
    /\ prompt_content_cache # EmptyMap

\* C11: after the first register_prompts, answered with a list of records
\* that all carry identifier and title, get_cached_prompts_data holds exactly
\* one record, with its identifier and title, for each record of the answer
\* that is not download_restricted and has a non-empty identifier.
C11_CatalogIsTheUnrestrictedRecords ==
    (/\ reply.op = "register_prompts"
     /\ reply.answer.status = "ok"
     /\ \A i \in 1..Len(reply.answer.body) :
            {"identifier", "title"} \subseteq DOMAIN reply.answer.body[i])
    => LET body == reply.answer.body
           kept == { i \in 1..Len(body) :
                       /\ ~Get(body[i], "download_restricted", FALSE)
                       /\ body[i].identifier # NoId }
       IN  /\ { [identifier |-> r.identifier, title |-> r.title] :
                  r \in get_cached_prompts_data }
              = { [identifier |-> body[i].identifier, title |-> body[i].title] : i \in kept }
           /\ get_prompts_count = Cardinality(kept)

C11_Witness ==
    /\ reply.op = "register_prompts"
    /\ reply.answer.status = "ok"
    /\ Len(reply.answer.body) = 2
    /\ Get(reply.answer.body[1], "download_restricted", FALSE)
    /\ {"identifier", "title"} \subseteq DOMAIN reply.answer.body[2]
    /\ reply.answer.body[2].identifier # NoId
    /\ get_prompts_count = 1

\* C12 as stated: ToolRegistry.execute_tool with a name that is not
\* registered does not raise and returns one content item that holds
\* "Tool not found".
C12_ExecuteToolDoesNotRaise ==
    (reply.op = "tool_call" /\ reply.name = "no_such_tool")
    => /\ reply.executed.raised = "none"
       /\ Len(reply.executed.content) = 1
       /\ reply.executed.content[1][2] = "Tool not found: "

\* C12 as amended: for a name that is not registered execute_tool raises
\* ValueError "Tool not found: <name>" to its caller, and the call_tool
\* handler returns the one content item "Error: Tool not found: <name>".
C12_UnknownToolConvertedByHandler ==
    (reply.op = "tool_call" /\ reply.name = "no_such_tool")
    => /\ reply.executed.raised = "ValueError"
       /\ reply.executed.error = <<"Tool not found: ", reply.name>>
       /\ reply.handled.raised = "none"
       /\ reply.handled.content = << <<"Error: ", "Tool not found: ", reply.name>> >>

C12_Witness ==
    /\ reply.op = "tool_call"
    /\ reply.name = "no_such_tool"
    /\ reply.executed.raised = "ValueError"

\* C13: the call_tool handler raises nothing and returns one content item;
\* when the tool name is unknown, the arguments are None or lack prompt_id,
\* or the backend call fails, the text of that item starts with "Error: ".
C13_CallToolConvertsFaults ==
    reply.op = "tool_call"
    => /\ reply.handled.raised = "none"
       /\ Len(reply.handled.content) = 1
       /\ (\/ reply.name = "no_such_tool"
           \/ reply.arguments = None
           \/ (reply.name = "get_prompt_text"
                 /\ Get(reply.arguments, "prompt_id", NoId) = NoId)
           \/ reply.answer.status \in {"http_error", "transport_fault"})
          => Head(reply.handled.content[1]) = "Error: "

C13_Witness ==
    /\ reply.op = "tool_call"
    /\ reply.name = "get_prompt_text"
    /\ reply.arguments = None
    /\ Head(reply.handled.content[1]) = "Error: "

\* C14: execute of get_prompts and of get_prompt_text raises nothing and
\* returns one content item whose text starts with "Error: " when prompt_id
\* is missing or empty, when the backend answers with an HTTP error status
\* or the request faults, and when the backend has no such prompt.
C14_ExecuteReturnsErrorItem ==
    (/\ reply.op = "tool_call"
     /\ reply.name \in {"get_prompts", "get_prompt_text"}
     /\ reply.arguments # None
     /\ \/ (reply.name = "get_prompt_text"
              /\ Get(reply.arguments, "prompt_id", NoId) = NoId)
        \/ reply.answer.status \in {"http_error", "transport_fault"}
        \/ (reply.name = "get_prompt_text" /\ reply.answer.status = "ok"
              /\ reply.answer.kind \in {"empty_object", "empty_list", "null"}))
    => /\ reply.executed.raised = "none"
       /\ Len(reply.executed.content) = 1
       /\ Head(reply.executed.content[1]) = "Error: "

C14_Witness ==
    /\ reply.op = "tool_call"
    /\ reply.name = "get_prompts"
    /\ reply.answer.status = "http_error"
    /\ reply.executed.content = << <<"Error: ", "HTTP error from Haiven API: ">> >>

\* C16: a call of the get_prompts tool issues no backend call and lists the
\* identifiers of the cached catalog, and a call of the get_prompt_text tool
\* for an identifier that is in the content cache issues no backend call.
C16_ToolsDelegateToService ==
    [][(reply' # reply /\ reply'.op = "call_tool")
       => /\ reply'.name = "get_prompts"
             => /\ reply'.status = "none"
                /\ Head(reply'.content[1]) = "json"
                /\ { reply'.content[1][2].prompts[i] :
                       i \in 1..Len(reply'.content[1][2].prompts) }
                   = { r.identifier : r \in get_cached_prompts_data }
          /\ (/\ reply'.name = "get_prompt_text"
              /\ Get(reply'.arguments, "prompt_id", NoId) \in DOMAIN prompt_content_cache)
             => reply'.status = "none"]_vars

\* C17: get_prompt_text executed with arguments that lack prompt_id, or hold
\* an empty one, returns the one content item "Error: prompt_id is required",
\* issues no backend call and leaves catalog and content cache as they were.
C17_PromptIdRequired ==
    (/\ reply.op = "tool_call"
     /\ reply.name = "get_prompt_text"
     /\ reply.arguments # None
     /\ Get(reply.arguments, "prompt_id", NoId) = NoId)
    => /\ reply.executed.raised = "none"
       /\ reply.executed.content = << <<"Error: ", "prompt_id is required">> >>
       /\ reply.answer = NoAnswer
       /\ prompt_content_cache = EmptyMap
       /\ loaded_prompts = EmptyMap
       /\ calls = [id \in Ids |-> 0]

C17_Witness ==
    /\ reply.op = "tool_call"
    /\ reply.name = "get_prompt_text"
    /\ reply.arguments = [prompt_id |-> NoId]
    /\ reply.executed.content = << <<"Error: ", "prompt_id is required">> >>

\* C18: a get_prompts or get_prompt_text tool built without a server
\* reference returns, for arguments that are otherwise valid, the one content
\* item "Error: Prompt service not available".
C18_NoServiceError ==
    (/\ reply.op = "tool_call"
     /\ reply.server = "None"
     /\ \/ reply.name = "get_prompts"
        \/ (reply.name = "get_prompt_text" /\ reply.arguments # None
              /\ Get(reply.arguments, "prompt_id", NoId) # NoId))
    => reply.executed.content = << <<"Error: ", "Prompt service not available">> >>

\* C19: when the answer to the GET of get_prompt_content is an empty list,
\* an empty body, an HTTP error status or a transport fault, the call
\* returns None and the content cache is left as it was.
C19_FailedFetchReturnsNone ==
    [][\A id \in Ids :
         (/\ inflight'[id] < inflight[id]
          /\ \/ reply'.answer.status \in {"http_error", "transport_fault"}
             \/ reply'.answer.kind \in {"empty_object", "empty_list", "null"})
         => /\ reply'.name = id
            /\ reply'.result = None
            /\ prompt_content_cache' = prompt_content_cache]_vars

C19_Witness ==
    /\ reply.op = "get_prompt_content"
    /\ reply.log # "Using cached content for prompt"
    /\ reply.answer.status = "ok"
    /\ reply.answer.kind = "empty_list"
    /\ reply.result = None
    /\ prompt_content_cache # EmptyMap

\* C15: a reply to tools/call for an unknown tool or after a failed backend
\* call is one content item whose text starts with "Error: ", and a reply to
\* prompts/get for an unknown prompt or after a failed backend call has a
\* text that starts with "Error: ".
C15_FailuresArePrefixedError ==
    /\ (/\ reply.op = "call_tool"
        /\ \/ reply.name \notin {"get_prompts", "get_prompt_text"}
           \/ reply.status \in {"http_error", "transport_fault"})
       => /\ reply.raised = "none"
          /\ Len(reply.content) = 1
          /\ Head(reply.content[1]) = "Error: "
    /\ (/\ reply.op = "get_prompt"
        /\ \/ reply.name \notin DOMAIN loaded_prompts
           \/ reply.status \in {"http_error", "transport_fault"})
       => Head(reply.text) = "Error: "

C15_Witness ==
    /\ reply.op = "get_prompt"
    /\ reply.status = "transport_fault"
    /\ Head(reply.text) = "Error: "

\* C20: get_prompt for a name that is not in the loaded catalog issues no
\* backend call and returns the text "Error: Prompt '<name>' not found";
\* for a loaded name whose fetch failed it returns the text
\* "Error: Content for prompt '<name>' not found".
C20_GetPromptNotFound ==
    /\ \A name \in Ids : calls[name] > 0 => name \in DOMAIN loaded_prompts
    /\ (reply.op = "get_prompt" /\ reply.name \notin DOMAIN loaded_prompts)
       => /\ reply.status = "none"
          /\ reply.description = <<"Prompt not found">>
          /\ reply.text = <<"Error: ", "Prompt '", reply.name, "' not found">>
    /\ (reply.op = "get_prompt" /\ reply.status \in {"http_error", "transport_fault"})
       => /\ reply.name \in DOMAIN loaded_prompts
          /\ reply.description = <<"Prompt content not found">>
          /\ reply.text = <<"Error: ", "Content for prompt '", reply.name, "' not found">>

C20_Witness ==
    /\ reply.op = "get_prompt"
    /\ reply.name \in Ids
    /\ reply.name \notin DOMAIN loaded_prompts
    /\ loaded_prompts # EmptyMap
    /\ reply.text = <<"Error: ", "Prompt '", reply.name, "' not found">>

\* C21: while prompts_loaded is false get_cached_prompts_data() returns no
\* record and get_prompts_count() returns 0; once loaded,
\* get_cached_prompts_data() returns one record for each entry of the
\* catalog, each with the metadata of its entry and download_restricted
\* false, and get_prompts_count() is the number of these records.
C21_CachedDataAndCount ==
    /\ ~prompts_loaded => (get_cached_prompts_data = {} /\ get_prompts_count = 0)
    /\ prompts_loaded =>
         /\ { r.identifier : r \in get_cached_prompts_data } = DOMAIN loaded_prompts
         /\ Cardinality(get_cached_prompts_data) = Cardinality(DOMAIN loaded_prompts)
         /\ \A r \in get_cached_prompts_data :
               /\ r.download_restricted = FALSE
               /\ r.title = loaded_prompts[r.identifier].title
               /\ r.categories = loaded_prompts[r.identifier].categories
         /\ get_prompts_count = Cardinality(get_cached_prompts_data)

C21_Witness ==
    /\ prompts_loaded
    /\ Cardinality(get_cached_prompts_data) = 2
    /\ get_prompts_count = 2

\* the text "{title}: {description}", followed by " (Categories: c1, c2, ...)"
\* when suffix holds
C22_Text(metadata, suffix) ==
    LET categories == metadata.categories
        listed == [k \in 1..(2 * Len(categories) - 1) |->
                     IF k % 2 = 1 THEN categories[(k + 1) \div 2] ELSE ", "]
    IN  IF suffix
        THEN <<metadata.title, ": ", metadata.help_prompt_description, " (Categories: ">>
             \o listed \o <<")">>
        ELSE <<metadata.title, ": ", metadata.help_prompt_description>>

\* C22 as stated: format_prompt_description(id) of a catalog entry is
\* "{title}: {description} (Categories: c1, c2, ...)", the categories joined
\* by ", " in their stored order, and the suffix is left out exactly when the
\* category list is empty.
C22_SuffixUnlessListEmpty ==
    [][(reply'.op = "format_prompt_description" /\ reply' # reply
          /\ reply'.name \in DOMAIN loaded_prompts)
       => reply'.text = C22_Text(loaded_prompts[reply'.name],
                                 loaded_prompts[reply'.name].categories # <<>>)]_vars

\* C22 (amended): format_prompt_description(id) of a catalog entry is
\* "{title}: {description} (Categories: c1, c2, ...)", the categories joined
\* by ", " in their stored order, and the suffix is left out exactly when the
\* joined category text is empty: when the list is empty or holds nothing
\* but one empty name.
C22_DescriptionFormat ==
    [][(reply'.op = "format_prompt_description" /\ reply' # reply
          /\ reply'.name \in DOMAIN loaded_prompts)
       => reply'.text = C22_Text(loaded_prompts[reply'.name],
                                 loaded_prompts[reply'.name].categories \notin {<<>>, <<"">>})]_vars

C22_Witness ==
    /\ reply.op = "format_prompt_description"
    /\ reply.name \in DOMAIN loaded_prompts
    /\ loaded_prompts[reply.name].categories = <<"a", "b">>
    /\ reply.text = <<"T1", ": ", "D", " (Categories: ", "a", ", ", "b", ")">>

\* C27: get_all_prompt_descriptions(), which list_prompts returns, is empty
\* while the catalog is not loaded; once loaded it holds exactly one
\* {name, description} pair for each entry of the catalog, name the
\* identifier and description format_prompt_description(identifier).
C27_ListPromptsPairs ==
    [][(reply'.op = "get_all_prompt_descriptions" /\ reply' # reply)
       => /\ ~prompts_loaded => reply'.prompts = {}
          /\ prompts_loaded =>
               /\ { d.name : d \in reply'.prompts } = DOMAIN loaded_prompts
               /\ Cardinality(reply'.prompts) = Cardinality(DOMAIN loaded_prompts)
               /\ \A d \in reply'.prompts :
                     d.description = format_prompt_description(d.name)]_vars

C27_Witness ==
    /\ reply.op = "get_all_prompt_descriptions"
    /\ prompts_loaded
    /\ Cardinality(reply.prompts) = 2
    /\ \E d \in reply.prompts :
         d.description = <<"T1", ": ", "D", " (Categories: ", "b", ", ", "a", ")">>

\* C23: after any sequence of register_tool calls the registry holds exactly
\* one instance for each registered name, the instance created by the last
\* registration under that name, and the number of stored tools is the
\* number of distinct registered names.
C23_OneInstancePerName ==
    /\ \A i, j \in 1..Len(tools) : tools[i].name = tools[j].name => i = j
    /\ { tools[i].name : i \in 1..Len(tools) }
         = { registered[k] : k \in 1..Len(registered) }
    /\ Len(tools) = Cardinality({ registered[k] : k \in 1..Len(registered) })
    /\ \A i \in 1..Len(tools) :
         /\ tools[i].serial \in 1..Len(registered)
         /\ registered[tools[i].serial] = tools[i].name
         /\ \A k \in 1..Len(registered) :
               registered[k] = tools[i].name => k <= tools[i].serial

C23_Witness ==
    /\ Len(registered) = MaxRegistrations
    /\ registered[1] = registered[MaxRegistrations]
    /\ Len(tools) = 2
    /\ tools[1].name = registered[1]
    /\ tools[1].serial = MaxRegistrations

\* C24: get_all_tools() returns one definition for each registered name,
\* each name exactly once, in the order in which the names were first
\* registered.
C24_ToolsInRegistrationOrder ==
    LET names == get_all_tools(tools)
        classes == { registered[k] : k \in 1..Len(registered) }
        first(n) == CHOOSE k \in 1..Len(registered) :
                      registered[k] = n /\ \A j \in 1..(k - 1) : registered[j] # n
    IN  /\ Len(names) = Cardinality(classes)
        /\ \A n \in classes : Cardinality({ i \in 1..Len(names) : names[i] = n }) = 1
        /\ \A i, j \in 1..Len(names) : i < j => first(names[i]) < first(names[j])

C24_Witness ==
    /\ registered = <<"get_prompt_text", "get_prompts", "get_prompt_text">>
    /\ reply.op = "get_all_tools"
    /\ reply.tools = <<"get_prompt_text", "get_prompts">>
    /\ reply.tools = get_all_tools(tools)

\* C26: for every combination of api_key, HAIVEN_DISABLE_AUTH and
\* session_cookie at construction the client carries the Authorization
\* bearer header if and only if an API key is supplied, and a supplied
\* session cookie is attached to the client as its credential when no API
\* key is given.
C26_AuthModes ==
    reply.op = "HaivenMCPServer"
    => /\ ("Authorization" \in DOMAIN reply.headers) <=> truthy(reply.api_key)
       /\ truthy(reply.api_key)
            => reply.headers["Authorization"] = <<"Bearer ", reply.api_key[1]>>
       /\ (~truthy(reply.api_key) /\ truthy(reply.session_cookie))
            => \/ \E k \in DOMAIN reply.cookies : reply.cookies[k] = reply.session_cookie
               \/ \E k \in DOMAIN reply.headers :
                    reply.session_cookie[1] \in
                      { reply.headers[k][i] : i \in 1..Len(reply.headers[k]) }

\* C25: when the backend answers the catalog request with a non-2xx status
\* or the transport fails, load_prompts_from_api raises to its caller and
\* returns no value, and the call changes neither prompts_loaded nor
\* loaded_prompts nor the content cache.
C25_LoadFailurePropagates ==
    [][(reply'.op = "load_prompts_from_api" /\ reply' # reply
          /\ reply'.answer.status \in {"http_error", "transport_fault"})
       => /\ reply'.raised
          /\ reply'.value = <<>>
          /\ UNCHANGED <<prompts_loaded, loaded_prompts, prompt_content_cache>>]_vars

C25_Witness ==
    /\ reply.op = "load_prompts_from_api"
    /\ reply.answer.status = "http_error"
    /\ reply.raised
    /\ prompts_loaded
    /\ loaded_prompts # EmptyMap

\* C30: on a cache miss that the backend answers with an object or with a
\* non-empty list, get_prompt_content formats the object, or the first
\* element of the list, with the defaults title "Unknown", content "No
\* content available", type "chat", follow_ups [] and prompt_id the
\* requested id for the keys the object lacks, stores the result under the
\* requested id and returns that same result.
C30_NormalizedAndStored ==
    (reply.op = "get_prompt_content" /\ reply.answer.kind \in {"object", "list"})
    => LET data == IF reply.answer.kind = "list"
                   THEN reply.answer.items[1] ELSE reply.answer.obj
           value(key, default) == IF key \in DOMAIN data THEN data[key] ELSE default
       IN  /\ reply.result # None
           /\ reply.result.prompt_id = value("identifier", reply.name)
           /\ reply.result.title = value("title", "Unknown")
           /\ reply.result.content = value("content", "No content available")
           /\ reply.result.type = value("type", "chat")
           /\ reply.result.follow_ups = value("follow_ups", <<>>)
           /\ DOMAIN prompt_content_cache = {reply.name}
           /\ prompt_content_cache[reply.name] = reply.result

C30_Witness ==
    /\ reply.op = "get_prompt_content"
    /\ reply.name = "p1"
    /\ reply.answer.kind = "list"
    /\ reply.answer.items = <<[title |-> "T1"], EmptyMap>>
    /\ reply.result = [prompt_id |-> "p1", title |-> "T1",
                        content |-> "No content available", type |-> "chat",
                        follow_ups |-> <<>>]
    /\ prompt_content_cache["p1"] = reply.result

\* C28: under every interleaving of get_prompt handlers suspended at their
\* content GET, the handlers leave the catalog unchanged, and every entry
\* of the content cache stored under an id is the normalized form of an
\* answer of the backend to a content request for that same id.
C28_InterleavedHandlersKeepState ==
    [][/\ pc = "Ready" => UNCHANGED <<prompts_loaded, loaded_prompts>>
       /\ \A id \in DOMAIN prompt_content_cache' :
            \E resp \in ContentAnswers(id, backend_restricted) :
              /\ resp.kind \in {"object", "list"}
              /\ prompt_content_cache'[id] = format_response(first_prompt_data(resp), id)]_vars

C28_Witness ==
    /\ pc = "Ready"
    /\ DOMAIN prompt_content_cache = Ids
    /\ \E id \in Ids : inflight[id] > 0 /\ calls[id] = 2
    /\ prompt_content_cache["p1"].prompt_id = "p2"

\* C29: nothing is retried. The one invocation of register_prompts that
\* run() makes has one catalog GET: once it is answered, whatever the
\* outcome, no further catalog GET is outstanding. A content GET is issued
\* only by the step in which an invocation of get_prompt_content suspends,
\* one GET for that invocation, and the step that takes the answer, whatever
\* the outcome, issues none.
C29_NoRetry ==
    [][/\ reg = "waiting" => reg' \in {"waiting", "done", "raised"}
       /\ reg \in {"done", "raised"} => reg' = reg
       /\ \A id \in Ids :
            /\ calls'[id] \in {calls[id], calls[id] + 1}
            /\ calls'[id] = calls[id] + 1 => inflight'[id] = inflight[id] + 1
            /\ inflight'[id] < inflight[id] => calls' = calls]_vars

C29_Witness ==
    /\ reg = "done"
    /\ reply.op = "get_prompt"
    /\ reply.status = "transport_fault"
    /\ calls[reply.name] = 1
    /\ inflight[reply.name] = 0

C32_RegisterStoresFlaggedRecords ==
    (/\ reply.op = "register_prompts"
     /\ \A i \in 1..Len(reply.returned) :
          {"identifier"} \cup MetadataKeys \subseteq DOMAIN reply.returned[i])
    => LET returned == reply.returned
           named == { i \in 1..Len(returned) : returned[i].identifier # NoId }
       IN  /\ prompts_loaded
           /\ DOMAIN loaded_prompts = { returned[i].identifier : i \in named }
           /\ \A i \in named :
                 loaded_prompts[returned[i].identifier].title = returned[i].title

C32_Witness ==
    /\ reply.op = "register_prompts"
    /\ Len(reply.returned) = 2
    /\ Get(reply.returned[1], "identifier", NoId) = "p1"
    /\ Get(reply.returned[1], "download_restricted", FALSE)
    /\ "title" \in DOMAIN reply.returned[2]
    /\ DOMAIN loaded_prompts = {"p1", "p2"}

\* C33: in every state reachable through the RPC handlers the keys of the
\* content cache are catalog identifiers: content is fetched and cached only
\* for names for which is_prompt_loaded is true.
C33_CachedIdsAreCatalogIds ==
    /\ DOMAIN prompt_content_cache \subseteq DOMAIN loaded_prompts
    /\ \A id \in Ids : (calls[id] > 0 \/ inflight[id] > 0) => id \in DOMAIN loaded_prompts

C33_Witness ==
    /\ pc = "Ready"
    /\ DOMAIN prompt_content_cache = {"p2"}
    /\ DOMAIN loaded_prompts = {"p2"}
    /\ reply.op = "get_prompt"
    /\ reply.name = "p1"

\* C34: in every reachable state prompts_loaded = false implies that the
\* catalog is empty, get_prompts_count() is the number of identifiers for
\* which is_prompt_loaded is true, and once register_prompts has returned,
\* where run() tests prompts_loaded, prompts_loaded is true.
C34_UnloadedMeansEmpty ==
    /\ ~prompts_loaded => loaded_prompts = EmptyMap
    /\ get_prompts_count = Cardinality({ id \in Ids \cup {NoId} : is_prompt_loaded(id) })
    /\ reg = "done" => prompts_loaded
    /\ pc = "Ready" => prompts_loaded

C34_Witness ==
    /\ pc = "CatalogLoading"
    /\ reg = "done"
    /\ prompts_loaded
    /\ get_prompts_count = 1
    /\ Len(register_log) = 2
    /\ register_log[2] = "Failed to register prompts"

\* C35: a fetch that returned None is not cached: after get_prompt_content(id)
\* has returned None the id is not in the cache, the next
\* get_prompt_content(id) issues a fresh backend request, and when the
\* backend answers that request with content the call returns the
\* normalized content and caches it.
C35_NoneIsNotCached ==
    [][\A id \in Ids :
         (reply.op = "get_prompt_content" /\ reply.name = id /\ reply.result = None)
         => /\ id \notin DOMAIN prompt_content_cache
            /\ inflight'[id] > inflight[id] => calls'[id] = calls[id] + 1
            /\ (inflight'[id] < inflight[id] /\ reply'.answer.kind \in {"object", "list"})
                 => /\ reply'.result = format_response(first_prompt_data(reply'.answer), id)
                    /\ id \in DOMAIN prompt_content_cache'
                    /\ prompt_content_cache'[id] = reply'.result]_vars

C35_Witness ==
    /\ reply.op = "get_prompt_content"
    /\ reply.name = "p1"
    /\ reply.result # None
    /\ calls["p1"] = 2
    /\ calls["p2"] = 0
    /\ prompt_content_cache["p1"] = reply.result

\* C36 as stated: every content cache entry stored under key k has its
\* prompt_id field equal to k.
C36_EntryNamesItsKey ==
    \A k \in DOMAIN prompt_content_cache : prompt_content_cache[k].prompt_id = k

\* C36 (amended): the prompt_id field of the content cache entry stored
\* under key k is the identifier of the object the backend answered with,
\* and is k when that object carries no identifier.
C36_EntryNamesBackendIdentifier ==
    \A k \in DOMAIN prompt_content_cache :
        /\ reply.op = "get_prompt_content"
        /\ reply.name = k
        /\ LET data == first_prompt_data(reply.answer)
           IN  prompt_content_cache[k].prompt_id =
                 IF "identifier" \in DOMAIN data THEN data["identifier"] ELSE k

C36_Witness ==
    /\ reply.op = "get_prompt_content"
    /\ reply.name = "p1"
    /\ reply.answer.kind = "object"
    /\ reply.answer.obj["identifier"] = "p2"
    /\ DOMAIN prompt_content_cache = {"p1"}
    /\ prompt_content_cache["p1"].prompt_id = "p2"

C38_RegistryIsFixed ==
    /\ Len(tools) = 2
    /\ tools[1] = [name |-> "get_prompts", serial |-> 1]
    /\ tools[2] = [name |-> "get_prompt_text", serial |-> 2]
    /\ get_all_tools(tools) = <<"get_prompts", "get_prompt_text">>
    /\ reply.op = "list_tools" => reply.tools = <<"get_prompts", "get_prompt_text">>

C38_Witness ==
    /\ pc = "Ready"
    /\ reply.op = "list_tools"
    /\ reply.tools = <<"get_prompts", "get_prompt_text">>
    /\ prompt_content_cache # EmptyMap
    /\ calls["p1"] = 2

\* the lines of a text that are the given heading
C40_At(content, heading) == { i \in 1..Len(content) : content[i] = heading }

\* C40: _extract_section returns the content unchanged for section "full"
\* and for an unknown section; for explore, craft and polish, on a content
\* that holds the three phase headings, every explore heading before every
\* craft heading and every craft heading before every polish heading, the
\* result starts at the heading of the section and holds the heading of no
\* later section.
C40_ExtractSection ==
    reply.op = "_extract_section"
    => LET content == reply.content
           result == reply.result
           heading == [s \in {"explore", "craft", "polish"} |->
                         SECTION_MARKERS[s][1]]
           later == [s \in {"explore", "craft", "polish"} |->
                       CASE s = "explore" -> {CraftHeading, PolishHeading}
                         [] s = "craft" -> {PolishHeading}
                         [] OTHER -> {}]
           in_order ==
               /\ \A h \in {ExploreHeading, CraftHeading, PolishHeading} :
                     C40_At(content, h) # {}
               /\ \A i \in C40_At(content, ExploreHeading), j \in C40_At(content, CraftHeading) :
                     i < j
               /\ \A i \in C40_At(content, CraftHeading), j \in C40_At(content, PolishHeading) :
                     i < j
       IN  /\ reply.section \in {"full", "summary"} => result = content
           /\ (reply.section \in {"explore", "craft", "polish"} /\ in_order)
                => /\ result # <<>>
                   /\ result[1] = heading[reply.section]
                   /\ \A i \in 1..Len(result) : result[i] \notin later[reply.section]

C40_Witness ==
    /\ reply.op = "_extract_section"
    /\ reply.section = "craft"
    /\ reply.content = <<ExploreHeading, CraftHeading, "text", PolishHeading>>
    /\ reply.result = <<CraftHeading, "text">>

\* C39: GetCasperWorkflowToolHandler.execute never raises; when the loaded
\* text starts with "Error:" it returns that text as its single item and
\* makes no call of _save_casper_workflow, also when the mode is save; when
\* the save reports an error it returns the single item "Error: " followed
\* by the error of the save.
C39_ExecuteNeverRaises ==
    reply.op = "get_casper_workflow"
    => LET call == reply.call
           full_content == load_casper_workflow(call.server)
       IN  /\ ~reply.raised
           /\ Len(reply.returned) = 1
           /\ (call.arguments # <<>> /\ StartsWithError(full_content))
                => /\ reply.returned = <<TextContent(full_content)>>
                   /\ reply.saves = <<>>
           /\ \A i \in 1..Len(reply.saves) :
                reply.saves[i].result.status = "error"
                => reply.returned = <<TextContent(<<"Error:">> \o reply.saves[i].result.error)>>
           /\ ( /\ call.arguments # <<>>
                /\ Get(call.arguments[1], "mode", "share") = "save"
                /\ Get(call.arguments[1], "section", "full") # ListValue
                /\ ~StartsWithError(full_content)
                /\ call.file_system = "denied" )
                => /\ Len(reply.saves) = 1
                   /\ reply.saves[1].result.status = "error"

\* a call in save mode whose load gave an error text
C39_Witness ==
    /\ reply.op = "get_casper_workflow"
    /\ reply.call.arguments # <<>>
    /\ Get(reply.call.arguments[1], "mode", "share") = "save"
    /\ reply.call.server.kind = "missing"
    /\ reply.call.file_system = "denied"
    /\ reply.saves = <<>>
    /\ reply.returned[1].text[1] = "Error:"

====
